---- MODULE Spec2Model ----
(***************************************************************************)
(* examples/visualize_grid.py: a straight-line script that draws a         *)
(* six-panel overview figure and a nesting-detail figure and saves each    *)
(* to a PNG file, printing a status line after each save.                  *)
(*                                                                         *)
(* Numbers: every coordinate is kept in hundredths (N(36) is 36, Dec(0,85) *)
(* is 0.85), so the script's decimal literals are exact integers here;     *)
(* binary floating-point rounding of these decimals is not modelled.       *)
(* Strings: the label texts are the script's, with the non-ASCII glyphs    *)
(* written in ASCII (x for the multiplication sign, -> and <- for arrows,  *)
(* [v] for the check mark, * for the bullet, deg for the degree sign).     *)
(***************************************************************************)
EXTENDS Integers, Sequences, FiniteSets, TLC

VARIABLES pc, raised, env, figs, gcf, files, writes, stdout, run, startFiles,
          history, order

vars == <<pc, raised, env, figs, gcf, files, writes, stdout, run, startFiles,
          history, order>>

\* How many times the program is run, one run after the other.
MaxRuns == 2

--------------------------------------------------------------------------
\* Numbers and drawing primitives

N(n) == 100 * n

Dec(whole, hundredths) == 100 * whole + hundredths

Max(a, b) == IF a >= b THEN a ELSE b

Min(a, b) == IF a <= b THEN a ELSE b

\* range(n)
Range(n) == 0 .. (n - 1)

\* matplotlib.patches.Rectangle((x, y), w, h, edgecolor=, facecolor=)
Rectangle(x, y, w, h, edge, face) ==
    [kind |-> "rect", x |-> x, y |-> y, w |-> w, h |-> h,
     edge |-> edge, face |-> face]

\* patches.FancyBboxPatch((x, y), w, h, facecolor=, edgecolor=)
FancyBboxPatch(x, y, w, h, edge, face) ==
    [kind |-> "fancybox", x |-> x, y |-> y, w |-> w, h |-> h,
     edge |-> edge, face |-> face]

\* ax.text(x, y, s, color=); says: the quantities the text states, as
\* <<subject, quantity, value>>, for the texts that state one.
Text(x, y, s, color) ==
    [kind |-> "text", x |-> x, y |-> y, s |-> s, color |-> color, says |-> {}]

Saying(t, facts) == [t EXCEPT !.says = facts]

\* ax.annotate(s, xy=, xytext=)
Annotate(s, x, y, tx, ty) ==
    [kind |-> "annotate", s |-> s, x |-> x, y |-> y, tx |-> tx, ty |-> ty]

\* ax.plot(lon, lat, 'o', color=)
Marker(x, y, color) == [kind |-> "marker", x |-> x, y |-> y, color |-> color]

\* ax.axvline(x, color=) and ax.axhline(y, color=)
VLine(x, color) == [kind |-> "vline", at |-> x, color |-> color]

HLine(y, color) == [kind |-> "hline", at |-> y, color |-> color]

\* ax.set_title, ax.set_xlim / set_ylim, ax.axis('off')
Title(s) == [kind |-> "title", s |-> s]

Lim(axis, lo, hi) == [kind |-> "lim", axis |-> axis, lo |-> lo, hi |-> hi]

AxisOff == [kind |-> "axis_off"]

\* Any other axes call that takes one argument: set_aspect, set_xlabel,
\* set_ylabel, set_xticks, set_yticks, grid, legend.
Call(name, arg) == [kind |-> "call", name |-> name, arg |-> arg]

--------------------------------------------------------------------------
\* The script's module-level names that more than one section assigns.
\* A name not yet bound holds Unbound (a read of it would raise NameError).

Unbound == -N(10000)

NoPatch == [kind |-> "unbound"]

NoColor == "<unbound>"

EmptyEnv ==
    [x |-> Unbound, y |-> Unbound, y_pos |-> Unbound, i |-> Unbound,
     j |-> Unbound, idx |-> Unbound, rect |-> NoPatch, l2_rect |-> NoPatch,
     color |-> NoColor, colors |-> NoColor]

\* What a section does: the primitives it adds to its axes, in call order,
\* and the names it leaves bound.
Section(prims, e) == [prims |-> prims, env |-> e]

--------------------------------------------------------------------------
\* Subplot 1: L1 and L2 grid concept (plt.subplot(2, 3, 1))

\* The iteration with "x, y = i * 6, i * 6".
Subplot1Cell_Diagonal(i, j) ==
    LET x == N(i * 6)
        y == N(i * 6)
    IN  Rectangle(x, y, N(6), N(6), "darkgreen", "lightgreen")

\* Iteration (i, j) of "for i in range(6): for j in range(6)": x, y = i*6, j*6
Subplot1Cell(i, j) ==
    LET x == N(i * 6)
        y == N(j * 6)
    IN  Rectangle(x, y, N(6), N(6), "darkgreen", "lightgreen")

\* The nested loop, i outermost: iteration k (from 0) has i = k \div 6, j = k % 6.
Subplot1Grid ==
    [k \in 1 .. 6 * 6 |-> Subplot1Cell((k - 1) \div 6, (k - 1) % 6)]

Subplot1(e) ==
    LET head == << Title("Grid Hierarchy Concept"),
                   Call("set_aspect", "equal"),
                   Lim("x", N(0), N(36)),
                   Lim("y", N(0), N(36)),
                   Call("set_xlabel", "Distance (km)"),
                   Call("set_ylabel", "Distance (km)"),
                   Rectangle(N(0), N(0), N(36), N(36), "darkblue", "lightblue"),
                   Saying(Text(N(18), Dec(37, 50), "L1 Tile: 36 km x 36 km", "darkblue"),
                          {<<"L1", "km", 36>>}),
                   Saying(Text(N(18), -N(2), "600x600 pixels @ 60m/px", "darkblue"),
                          {<<"L1", "px", 600>>, <<"L1", "m/px", 60>>}) >>
        tail == << Rectangle(N(12), N(18), N(6), N(6), "red", "yellow"),
                   Text(N(15), N(21), "L2", "darkred"),
                   Saying(Text(N(3), N(33), "L2 tiles: 6 km x 6 km", "darkgreen"),
                          {<<"L2", "km", 6>>}),
                   Saying(Text(N(3), N(31), "600x600 px @ 10m/px", "darkgreen"),
                          {<<"L2", "px", 600>>, <<"L2", "m/px", 10>>}),
                   Annotate("6 x 6 = 36 L2 tiles\nper L1 tile", N(30), N(3), N(28), N(8)),
                   Call("grid", "True") >>
        last == Subplot1Grid[Len(Subplot1Grid)]
    IN  Section(head \o Subplot1Grid \o tail,
                [e EXCEPT !.i = 5, !.j = 5, !.x = last.x, !.y = last.y,
                          !.l2_rect = last])

--------------------------------------------------------------------------
\* Subplot 2: tile indexing example (plt.subplot(2, 3, 2))

\* plt.cm.viridis(np.linspace(0, 1, n)): n samples of the colour map.
Viridis(n) == "viridis/" \o ToString(n)

\* colors[idx]
ColorAt(colors, idx) == colors \o "[" \o ToString(idx) \o "]"

\* Iteration (row, col) of the index loop, idx being the counter's value in it.
Subplot2Cell(row, col, colors, idx) ==
    << Rectangle(N(col), N(row), N(1), N(1), "black", ColorAt(colors, idx)),
       Text(Dec(col, 50), Dec(row, 50), ToString(col) \o "," \o ToString(row),
            "black") >>

RECURSIVE Subplot2Loop(_, _, _)
\* "for row in range(6): for col in range(6): ...; idx += 1" from iteration k on.
Subplot2Loop(k, e, prims) ==
    IF k = 6 * 6 THEN Section(prims, e)
    ELSE LET row  == k \div 6
             col  == k % 6
             cell == Subplot2Cell(row, col, e.colors, e.idx)
         IN  Subplot2Loop(k + 1,
                          [e EXCEPT !.rect = cell[1], !.idx = e.idx + 1],
                          prims \o cell)

\* "for col in [2, 3]: for row in [3, 4]"
Subplot2Highlight ==
    LET highlight_cols == <<2, 3>>
        highlight_rows == <<3, 4>>
    IN  [k \in 1 .. 4 |->
            Rectangle(N(highlight_cols[((k - 1) \div 2) + 1]),
                      N(highlight_rows[((k - 1) % 2) + 1]),
                      N(1), N(1), "red", "none")]

Subplot2(e) ==
    LET head == << Title("Tile Index System"),
                   Call("set_aspect", "equal"),
                   Lim("x", -Dec(0, 50), Dec(6, 50)),
                   Lim("y", -Dec(0, 50), Dec(6, 50)),
                   Call("set_xlabel", "Column Index"),
                   Call("set_ylabel", "Row Index") >>
        e1   == [e EXCEPT !.colors = Viridis(36), !.idx = 0]
        loop == Subplot2Loop(0, e1, <<>>)
        tail == << Text(Dec(3, 30), Dec(6, 70), "Example: L2 tiles (2-3, 3-4)", "black"),
                   Text(Dec(3, 30), -N(1), "-> Parent L1: col=0, row=0", "darkred"),
                   Call("set_xticks", "range(7)"),
                   Call("set_yticks", "range(7)"),
                   Call("grid", "True") >>
    IN  Section(head \o loop.prims \o Subplot2Highlight \o tail,
                [loop.env EXCEPT !.rect = Subplot2Highlight[4]])

--------------------------------------------------------------------------
\* Subplot 3: tile ID format (plt.subplot(2, 3, 3))

components ==
    << <<"43S", "UTM Zone", "Zone 43, Southern Hemisphere">>,
       <<"L1", "Grid Level", "Level 1 (36km tiles)">>,
       <<"0006", "Column", "Column index from origin">>,
       <<"0114", "Row", "Row index from origin">> >>

RECURSIVE Subplot3Loop(_, _, _)
\* "for i, (part, label, desc) in enumerate(components)" from index i on.
Subplot3Loop(i, e, prims) ==
    IF i = Len(components) THEN Section(prims, e)
    ELSE LET part  == components[i + 1][1]
             label == components[i + 1][2]
             desc  == components[i + 1][3]
             y     == e.y_pos - i * Dec(0, 15)
         IN  Subplot3Loop(i + 1, [e EXCEPT !.i = i, !.y = y],
                 prims \o << Text(Dec(0, 15), y, part, "black"),
                             Text(Dec(0, 35), y, "<- " \o label, "black"),
                             Text(Dec(0, 35), y - Dec(0, 3), desc, "gray") >>)

Subplot3(e) ==
    LET e1   == [e EXCEPT !.y_pos = Dec(0, 85)]
        head == << AxisOff,
                   Title("Tile Identification Format"),
                   Saying(Text(Dec(0, 50), e1.y_pos, "43S_L1_0006_0114", "black"),
                          {<<"tile", "zone", 43>>}) >>
        e2   == [e1 EXCEPT !.y_pos = Dec(0, 65)]
        loop == Subplot3Loop(0, e2, <<>>)
        tail == << Text(Dec(0, 50), Dec(0, 5), "Example tile contains point at:", "black"),
                   Text(Dec(0, 50), -Dec(0, 2), "UTM: 399,338 E, 4,126,677 N", "black"),
                   Saying(Text(Dec(0, 50), -Dec(0, 8), "Lon/Lat: 73.5degE, 53.0degS", "black"),
                          {<<"tile", "lon", Dec(73, 50)>>, <<"tile", "lat", -Dec(53, 0)>>}) >>
    IN  Section(head \o loop.prims \o tail, loop.env)

--------------------------------------------------------------------------
\* Subplot 4: UTM zone coverage (plt.subplot(2, 3, 4)); longitudes and
\* latitudes in degrees.

\* zones = range(42, 59)
zones == 42 .. 58

\* lon_min = -183 + z * 6
ZoneLonMin(z) == -183 + z * 6

\* if 44 <= lon_min <= 160 or 44 <= lon_max <= 160
ZoneDrawn(z) ==
    LET lon_min == ZoneLonMin(z)
        lon_max == lon_min + 6
    IN  (44 <= lon_min /\ lon_min <= 160) \/ (44 <= lon_max /\ lon_max <= 160)

\* if 44 <= lon_min + 3 <= 160
ZoneLabelled(z) ==
    LET lon_min == ZoneLonMin(z)
    IN  44 <= lon_min + 3 /\ lon_min + 3 <= 160

\* Rectangle((max(lon_min, 40), -70), min(6, 165 - max(lon_min, 40)), 20, ...)
ZoneRect(z, color) ==
    LET lon_min == ZoneLonMin(z)
    IN  Rectangle(N(Max(lon_min, 40)), -N(70),
                  N(Min(6, 165 - Max(lon_min, 40))), N(20), "black", color)

\* ax4.text(lon_min + 3, -71, f'{z}S')
ZoneLabel(z) ==
    Text(N(ZoneLonMin(z) + 3), -N(71), ToString(z) \o "S", "black")

RECURSIVE ZoneLoop(_, _, _)
\* "for z in zones" from zone z on.
ZoneLoop(z, e, prims) ==
    IF z \notin zones THEN Section(prims, e)
    ELSE IF ZoneDrawn(z)
         THEN LET color == IF z % 2 = 0 THEN "lightblue" ELSE "lightgreen"
                  rect  == ZoneRect(z, color)
              IN  ZoneLoop(z + 1, [e EXCEPT !.color = color, !.rect = rect],
                           prims \o <<rect>>
                                 \o (IF ZoneLabelled(z) THEN <<ZoneLabel(z)>> ELSE <<>>))
         ELSE ZoneLoop(z + 1, e, prims)

locations ==
    << [lon |-> Dec(73, 50), lat |-> -Dec(53, 0), name |-> "Heard Is.", color |-> "red"],
       [lon |-> Dec(158, 85), lat |-> -Dec(54, 60), name |-> "Macquarie Is.", color |-> "red"],
       [lon |-> Dec(77, 97), lat |-> -Dec(68, 58), name |-> "Davis Stn", color |-> "blue"] >>

RECURSIVE LocationLoop(_, _, _)
\* "for lon, lat, name, color in locations" from the k-th location on.
LocationLoop(k, e, prims) ==
    IF k > Len(locations) THEN Section(prims, e)
    ELSE LET l == locations[k]
         IN  LocationLoop(k + 1, [e EXCEPT !.color = l.color],
                 prims \o << Marker(l.lon, l.lat, l.color),
                             Text(l.lon, l.lat - Dec(1, 50), l.name, "black") >>)

Subplot4(e) ==
    LET head == << Title("UTM Zone Coverage (AAT)"),
                   Call("set_xlabel", "Longitude (degE)"),
                   Call("set_ylabel", "Latitude (degS)"),
                   Lim("x", N(40), N(165)),
                   Lim("y", -N(72), -N(48)) >>
        zl   == ZoneLoop(42, e, <<>>)
        ll   == LocationLoop(1, zl.env, <<>>)
        tail == << VLine(N(44), "darkred"),
                   VLine(N(160), "darkred"),
                   HLine(-N(70), "orange"),
                   Call("grid", "True"),
                   Call("legend", "upper right") >>
    IN  Section(head \o zl.prims \o ll.prims \o tail, ll.env)

--------------------------------------------------------------------------
\* Subplot 5: resolution comparison (plt.subplot(2, 3, 5))

\* The table with L2 at 20 m/pixel.
levels_L2At20 ==
    << [level |-> "L1", res |-> "60 m/pixel", size |-> "36 km x 36 km",
        dims |-> "600 x 600 px", use |-> "Regional overview\nBroad coverage",
        color |-> "lightblue", mpp |-> 60, km |-> 36, px |-> 600],
       [level |-> "L2", res |-> "20 m/pixel", size |-> "6 km x 6 km",
        dims |-> "600 x 600 px", use |-> "Detailed analysis\nHigh resolution",
        color |-> "lightgreen", mpp |-> 20, km |-> 6, px |-> 600] >>

\* levels: each tuple with, besides its strings, the numbers its res, size
\* and dims strings state (mpp, km, px).
levels ==
    << [level |-> "L1", res |-> "60 m/pixel", size |-> "36 km x 36 km",
        dims |-> "600 x 600 px", use |-> "Regional overview\nBroad coverage",
        color |-> "lightblue", mpp |-> 60, km |-> 36, px |-> 600],
       [level |-> "L2", res |-> "10 m/pixel", size |-> "6 km x 6 km",
        dims |-> "600 x 600 px", use |-> "Detailed analysis\nHigh resolution",
        color |-> "lightgreen", mpp |-> 10, km |-> 6, px |-> 600] >>

RECURSIVE Subplot5Loop(_, _, _)
\* "for i, (level, res, size, dims, use, color) in enumerate(levels)" from i on.
Subplot5Loop(i, e, prims) ==
    IF i = Len(levels) THEN Section(prims, e)
    ELSE LET l    == levels[i + 1]
             y    == Dec(0, 70) - i * Dec(0, 40)
             rect == FancyBboxPatch(Dec(0, 5), y - Dec(0, 15), Dec(0, 90), Dec(0, 25),
                                    "black", l.color)
         IN  Subplot5Loop(i + 1,
                 [e EXCEPT !.i = i, !.y = y, !.color = l.color, !.rect = rect],
                 prims \o << rect,
                             Text(Dec(0, 15), y + Dec(0, 5), l.level, "black"),
                             Saying(Text(Dec(0, 50), y + Dec(0, 5), l.res, "black"),
                                    {<<l.level, "m/px", l.mpp>>}),
                             Saying(Text(Dec(0, 50), y - Dec(0, 2), l.size, "black"),
                                    {<<l.level, "km", l.km>>}),
                             Saying(Text(Dec(0, 50), y - Dec(0, 8), l.dims, "gray"),
                                    {<<l.level, "px", l.px>>}),
                             Text(Dec(0, 88), y, l.use, "black") >>)

Subplot5(e) ==
    LET head == << Title("Resolution Levels"), AxisOff >>
        loop == Subplot5Loop(0, e, <<>>)
        tail == << Text(Dec(0, 50), Dec(0, 15),
                        "Same pixel count per tile -> Same display size", "black") >>
    IN  Section(head \o loop.prims \o tail, loop.env)

--------------------------------------------------------------------------
\* Subplot 6: design principles (plt.subplot(2, 3, 6))

\* Each line as <<its first three characters (or fewer), the rest>>.
principles ==
    << <<"[v]", " Consistent Coverage">>,
       <<"  *", " Edge-to-edge tiling">>,
       <<"  *", " No gaps or overlaps within zones">>,
       <<"", "">>,
       <<"[v]", " Clean Nesting">>,
       <<"  *", " 6x6 L2 tiles per L1 tile">>,
       <<"  *", " Simple parent-child relationships">>,
       <<"", "">>,
       <<"[v]", " Sentinel-2 Alignment">>,
       <<"  *", " Compatible grid origins">>,
       <<"  *", " Integration with satellite data">>,
       <<"", "">>,
       <<"[v]", " Human-Viewable">>,
       <<"  *", " 600x600 pixel images">>,
       <<"  *", " Practical file sizes">>,
       <<"", "">>,
       <<"[v]", " Zone-Based">>,
       <<"  *", " Minimal distortion per zone">>,
       <<"  *", " Standard UTM projections">> >>

RECURSIVE Subplot6Loop(_, _, _)
\* "for line in principles: ...; y -= 0.05" from the k-th line on.
Subplot6Loop(k, e, prims) ==
    IF k > Len(principles) THEN Section(prims, e)
    ELSE LET line == principles[k]
             s    == line[1] \o line[2]
             t    == IF line[1] = "[v]" THEN Text(Dec(0, 5), e.y, s, "darkgreen")
                     ELSE IF line[1] = "  *" THEN Text(Dec(0, 10), e.y, s, "darkblue")
                     ELSE Text(Dec(0, 5), e.y, s, "black")
         IN  Subplot6Loop(k + 1, [e EXCEPT !.y = e.y - Dec(0, 5)], prims \o <<t>>)

\* The section without its "y = 0.95": the loop starts from whatever y holds.
Subplot6_NoInit(e) ==
    LET head == << Title("Design Principles"), AxisOff >>
        loop == Subplot6Loop(1, e, <<>>)
    IN  Section(head \o loop.prims, loop.env)

Subplot6(e) ==
    LET head == << Title("Design Principles"), AxisOff >>
        e1   == [e EXCEPT !.y = Dec(0, 95)]
        loop == Subplot6Loop(1, e1, <<>>)
    IN  Section(head \o loop.prims, loop.env)

--------------------------------------------------------------------------
\* The nesting-detail figure (fig2, ax = plt.subplots(1, 1)), lines 290-354

\* The iteration with the label's indices the other way round, f'L2\n({j},{i})'.
DetailCell_LabelSwapped(i, j) ==
    LET x     == N(i * 6)
        y     == N(j * 6)
        color == IF (i + j) % 2 = 0 THEN "white" ELSE "lightgray"
    IN  << Rectangle(x, y, N(6), N(6), "darkgreen", color),
           Text(x + N(3), y + N(3),
                "L2\n(" \o ToString(j) \o "," \o ToString(i) \o ")", "darkgreen") >>

\* Iteration (i, j) of the L2 grid loop: x, y = i * 6, j * 6
DetailCell(i, j) ==
    LET x     == N(i * 6)
        y     == N(j * 6)
        color == IF (i + j) % 2 = 0 THEN "white" ELSE "lightgray"
    IN  << Rectangle(x, y, N(6), N(6), "darkgreen", color),
           Text(x + N(3), y + N(3),
                "L2\n(" \o ToString(i) \o "," \o ToString(j) \o ")", "darkgreen") >>

RECURSIVE DetailLoop(_, _, _)
\* "for i in range(6): for j in range(6)" from iteration k on (i = k \div 6).
DetailLoop(k, e, prims) ==
    IF k = 6 * 6 THEN Section(prims, e)
    ELSE LET i    == k \div 6
             j    == k % 6
             cell == DetailCell(i, j)
         IN  DetailLoop(k + 1,
                 [e EXCEPT !.i = i, !.j = j, !.x = cell[1].x, !.y = cell[1].y,
                           !.color = cell[1].face, !.l2_rect = cell[1]],
                 prims \o cell)

\* "for i in range(7): ax.axvline(i * 6, ...); ax.axhline(i * 6, ...)"
DetailGridLines ==
    [k \in 1 .. 2 * 7 |->
        IF k % 2 = 1 THEN VLine(N(((k - 1) \div 2) * 6), "darkgreen")
                     ELSE HLine(N(((k - 1) \div 2) * 6), "darkgreen")]

info_text ==
    "L1 Tile:\n* 36,000 m x 36,000 m\n* 600 x 600 pixels\n* 60 m per pixel\n\n"
    \o "L2 Tiles (each):\n* 6,000 m x 6,000 m  \n* 600 x 600 pixels\n* 10 m per pixel\n\n"
    \o "Nesting: 6 x 6 = 36 tiles"

\* The quantities info_text states.
info_says ==
    { <<"L1", "m", 36000>>, <<"L1", "px", 600>>, <<"L1", "m/px", 60>>,
      <<"L2", "m", 6000>>, <<"L2", "px", 600>>, <<"L2", "m/px", 10>>,
      <<"nest", "per edge", 6>>, <<"nest", "tiles", 36>> }

Detail(e) ==
    LET head == << Title("L1/L2 Tile Nesting Detail\n(One L1 tile = 6x6 L2 tiles)"),
                   Call("set_aspect", "equal"),
                   Lim("x", -N(1), N(37)),
                   Lim("y", -N(1), N(37)),
                   Call("set_xlabel", "Distance from origin (km)"),
                   Call("set_ylabel", "Distance from origin (km)"),
                   Rectangle(N(0), N(0), N(36), N(36), "darkblue", "none"),
                   Saying(Text(-Dec(0, 50), N(18), "L1 Tile\n36 km", "darkblue"),
                          {<<"L1", "km", 36>>}) >>
        loop == DetailLoop(0, e, <<>>)
        dims == << Annotate("", N(0), -Dec(0, 50), N(36), -Dec(0, 50)),
                   Saying(Text(N(18), -Dec(0, 80), "36 km (36,000 m)", "darkblue"),
                          {<<"L1", "km", 36>>, <<"L1", "m", 36000>>}),
                   Annotate("", N(0), N(0), N(6), N(0)),
                   Saying(Text(N(3), -Dec(0, 30), "6 km", "darkgreen"),
                          {<<"L2", "km", 6>>}) >>
        tail == << Saying(Text(Dec(37, 50), N(18), info_text, "black"), info_says) >>
    IN  Section(head \o loop.prims \o dims \o DetailGridLines \o tail,
                [loop.env EXCEPT !.i = 6])

--------------------------------------------------------------------------
\* Figures (pyplot's state) and files

\* The k-th section of the overview figure.
Subplot(k, e) ==
    CASE k = 1 -> Subplot1(e)
      [] k = 2 -> Subplot2(e)
      [] k = 3 -> Subplot3(e)
      [] k = 4 -> Subplot4(e)
      [] k = 5 -> Subplot5(e)
      [] k = 6 -> Subplot6(e)

\* plt.figure(...) / plt.subplots(...): a new figure with no axes yet.
Figure(title) == [suptitle |-> title, axes |-> <<>>]

\* An axes' place: <<nrows, ncols, index>>.
\* plt.subplot(nrows, ncols, index) adds axes to the current figure; the
\* drawing calls that follow go to those axes.
AddAxes(fs, cur, place, prims) ==
    [fs EXCEPT ![cur].axes = (place :> prims) @@ @]

OverviewPath == "/mnt/user-data/outputs/grid_system_overview.png"

DetailPath == "/mnt/user-data/outputs/grid_nesting_detail.png"

Paths == {OverviewPath, DetailPath}

\* The file a savefig step writes: 1 the overview's, 2 the detail's.
SavePath_Same(n) == OverviewPath

SavePath(n) == IF n = 1 THEN OverviewPath ELSE DetailPath

\* plt.savefig(path, ...) that succeeds: the file is created or overwritten.
Savefig_NoOverwrite(fs, ws, path) ==
    IF path \in fs THEN [files |-> fs, writes |-> ws]
    ELSE [files |-> fs \cup {path}, writes |-> Append(ws, path)]

Savefig(fs, ws, path) ==
    [files |-> fs \cup {path}, writes |-> Append(ws, path)]

\* plt.savefig(path, ...) that raises: nothing catches it, the script ends
\* at step p with a traceback.
Raise_Swallowed(p) == [pc |-> p + 1, raised |-> FALSE]

Raise(p) == [pc |-> p, raised |-> TRUE]

OverviewSaved == "Grid system overview diagram saved!"

DetailSaved == "Grid nesting detail diagram saved!"

Summary ==
    << "\nDiagrams created successfully!",
       "- grid_system_overview.png: Complete system overview",
       "- grid_nesting_detail.png: Detailed view of tile nesting" >>

\* What the n-th group of print calls writes to the console.
Printed(n) ==
    CASE n = 1 -> <<OverviewSaved>>
      [] n = 2 -> <<DetailSaved>>
      [] n = 3 -> Summary

Step(op, n) == [op |-> op, n |-> n]

\* The script with the first status line printed before the first save.
Program_PrintFirst ==
    << Step("figure", 0),
       Step("subplot", 1), Step("subplot", 2), Step("subplot", 3),
       Step("subplot", 4), Step("subplot", 5), Step("subplot", 6),
       Step("print", 1), Step("savefig", 1),
       Step("detail", 0),
       Step("savefig", 2), Step("print", 2),
       Step("print", 3) >>

\* The script, top to bottom.
Program ==
    << Step("figure", 0),
       Step("subplot", 1), Step("subplot", 2), Step("subplot", 3),
       Step("subplot", 4), Step("subplot", 5), Step("subplot", 6),
       Step("savefig", 1), Step("print", 1),
       Step("detail", 0),
       Step("savefig", 2), Step("print", 2),
       Step("print", 3) >>

Done == pc = Len(Program) + 1 /\ ~raised

Running == pc <= Len(Program) /\ ~raised

--------------------------------------------------------------------------
\* One run after the other, each a fresh process; only the files persist.

Init ==
    /\ pc = 1
    /\ raised = FALSE
    /\ env = EmptyEnv
    /\ figs = <<>>
    /\ gcf = 0
    /\ files \in SUBSET Paths
    /\ startFiles = files
    /\ writes = <<>>
    /\ stdout = <<>>
    /\ run = 1
    /\ history = <<>>
    /\ order = <<>>

\* fig = plt.figure(figsize=(16, 10)); fig.suptitle(...)
CreateFigure ==
    /\ Running
    /\ Program[pc].op = "figure"
    /\ figs' = Append(figs, Figure("Antarctic Territory Grid System - Design Overview"))
    /\ gcf' = Len(figs) + 1
    /\ pc' = pc + 1
    /\ UNCHANGED <<raised, env, files, writes, stdout, run, startFiles, history, order>>

\* axN = plt.subplot(2, 3, N) and the drawing calls of its section
DrawSubplot ==
    /\ Running
    /\ Program[pc].op = "subplot"
    /\ LET k == Program[pc].n
           r == Subplot(k, env)
       IN  /\ figs' = AddAxes(figs, gcf, <<2, 3, k>>, r.prims)
           /\ env' = r.env
           /\ order' = Append(order, k)
    /\ pc' = pc + 1
    /\ UNCHANGED <<raised, gcf, files, writes, stdout, run, startFiles, history>>

\* fig2, ax = plt.subplots(1, 1, figsize=(10, 10)) and the detail drawing
DrawDetail ==
    /\ Running
    /\ Program[pc].op = "detail"
    /\ LET r    == Detail(env)
           fs   == Append(figs, Figure(""))
       IN  /\ figs' = AddAxes(fs, Len(fs), <<1, 1, 1>>, r.prims)
           /\ gcf' = Len(fs)
           /\ env' = r.env
    /\ pc' = pc + 1
    /\ UNCHANGED <<raised, files, writes, stdout, run, startFiles, history, order>>

\* plt.tight_layout(); plt.savefig(path, ...): writes the file, or raises
\* when the output directory is missing or not writable.
SaveFigure ==
    /\ Running
    /\ Program[pc].op = "savefig"
    /\ \/ LET r == Savefig(files, writes, SavePath(Program[pc].n))
          IN  /\ files' = r.files
              /\ writes' = r.writes
              /\ pc' = pc + 1
              /\ UNCHANGED raised
       \/ /\ pc' = Raise(pc).pc
          /\ raised' = Raise(pc).raised
          /\ UNCHANGED <<files, writes>>
    /\ UNCHANGED <<env, figs, gcf, stdout, run, startFiles, history, order>>

\* print(...)
PrintStatus ==
    /\ Running
    /\ Program[pc].op = "print"
    /\ stdout' = stdout \o Printed(Program[pc].n)
    /\ pc' = pc + 1
    /\ UNCHANGED <<raised, env, figs, gcf, files, writes, run, startFiles, history, order>>

\* What a finished run did.
Snapshot ==
    [figs |-> figs, writes |-> writes, stdout |-> stdout, raised |-> raised,
     startFiles |-> startFiles]

\* The program is run again once the previous run has ended.
Rerun ==
    /\ Done \/ raised
    /\ run < MaxRuns
    /\ history' = Append(history, Snapshot)
    /\ run' = run + 1
    /\ startFiles' = files
    /\ pc' = 1
    /\ raised' = FALSE
    /\ env' = EmptyEnv
    /\ figs' = <<>>
    /\ gcf' = 0
    /\ writes' = <<>>
    /\ stdout' = <<>>
    /\ order' = <<>>
    /\ UNCHANGED files

Next ==
    \/ CreateFigure
    \/ DrawSubplot
    \/ DrawDetail
    \/ SaveFigure
    \/ PrintStatus
    \/ Rerun

Spec == Init /\ [][Next]_vars

--------------------------------------------------------------------------
\* The overview's six sections run in any order, any of them left out, and
\* the detail section after them: the executions claim C8 speaks of.

InitOrder ==
    /\ pc = 2
    /\ raised = FALSE
    /\ env = EmptyEnv
    /\ figs = <<Figure("Antarctic Territory Grid System - Design Overview")>>
    /\ gcf = 1
    /\ files = {}
    /\ startFiles = {}
    /\ writes = <<>>
    /\ stdout = <<>>
    /\ run = 1
    /\ history = <<>>
    /\ order = <<>>

\* Any section of the overview that has not run yet runs next.
AnySubplot ==
    /\ Len(figs) = 1
    /\ \E k \in 1 .. 6 :
          /\ \A n \in 1 .. Len(order) : order[n] # k
          /\ LET r == Subplot(k, env)
             IN  /\ figs' = AddAxes(figs, gcf, <<2, 3, k>>, r.prims)
                 /\ env' = r.env
                 /\ order' = Append(order, k)
    /\ UNCHANGED <<pc, raised, gcf, files, writes, stdout, run, startFiles, history>>

\* The detail section runs after however many of the overview's sections ran.
DetailAfter ==
    /\ Len(figs) = 1
    /\ LET r    == Detail(env)
           fs   == Append(figs, Figure(""))
       IN  /\ figs' = AddAxes(fs, Len(fs), <<1, 1, 1>>, r.prims)
           /\ gcf' = Len(fs)
           /\ env' = r.env
    /\ UNCHANGED <<pc, raised, files, writes, stdout, run, startFiles, history, order>>

NextOrder == AnySubplot \/ DetailAfter

SpecOrder == InitOrder /\ [][NextOrder]_vars

--------------------------------------------------------------------------
\* Properties

\* The elements of a sequence.
Elems(seq) == {seq[n] : n \in 1 .. Len(seq)}

IsPrefix(a, b) == Len(a) <= Len(b) /\ \A n \in 1 .. Len(a) : a[n] = b[n]

BothWritten == <<OverviewPath, DetailPath>>

\* C1: a run that ends normally has written exactly two files, each once and
\* in this order: the overview's, then the detail's; the two paths differ,
\* and at no point has a run written anything else (its writes are always a
\* prefix of that pair, and the files on disk are those it found plus those
\* it wrote).
C1_TwoWritesInOrder ==
    /\ OverviewPath # DetailPath
    /\ IsPrefix(writes, BothWritten)
    /\ files = startFiles \cup Elems(writes)
    /\ Done => writes = BothWritten

C1_Witness == Done /\ startFiles = {} /\ files = Paths

\* C2: when a save step raises, the run is stopped at that very step: the
\* file of that step is not written by the run, its status line and the
\* closing summary are not printed, nothing after it has run (a failure of
\* the first save leaves no second figure and an empty console; a failure of
\* the second leaves only the first status line); and the summary is never
\* on the console while a file is unwritten.
C2_FailureStopsRun ==
    /\ raised =>
          /\ pc \in 1 .. Len(Program)
          /\ Program[pc].op = "savefig"
          /\ SavePath(Program[pc].n) \notin Elems(writes)
          /\ Elems(Printed(Program[pc].n)) \cap Elems(stdout) = {}
          /\ Elems(Summary) \cap Elems(stdout) = {}
          /\ Program[pc].n = 1 => (stdout = <<>> /\ Len(figs) = 1 /\ writes = <<>>)
          /\ Program[pc].n = 2 => (stdout = <<OverviewSaved>> /\ writes = <<OverviewPath>>)
    /\ Elems(Summary) \cap Elems(stdout) # {} => Paths \subseteq Elems(writes)
    /\ ~(Done /\ ~(Paths \subseteq Elems(writes)))

C2_Witness == raised /\ Program[pc].n = 2 /\ run = 1

\* C5: any two runs that both end normally have issued the same drawing
\* primitives for each figure and written the same paths in the same order,
\* whatever files each found when it started; and the overview figure of
\* every ended run, failed or not, is the same.
C5_RerunIdempotent ==
    LET ended == history \o (IF Done \/ raised THEN <<Snapshot>> ELSE <<>>)
    IN  \A a, b \in 1 .. Len(ended) :
           /\ ended[a].figs[1] = ended[b].figs[1]
           /\ (~ended[a].raised /\ ~ended[b].raised) =>
                 /\ ended[a].figs = ended[b].figs
                 /\ ended[a].writes = ended[b].writes
                 /\ ended[a].stdout = ended[b].stdout

C5_Witness ==
    /\ Done
    /\ Len(history) = 1
    /\ ~history[1].raised
    /\ history[1].startFiles = {}
    /\ startFiles = Paths

\* C6: a status line is on the console only when the write it confirms has
\* happened in this run (the overview line after the overview file, the
\* detail line after the detail file, the summary after both), and a run
\* that ends normally has printed all of them, in that order.
C6_StatusAfterWrite ==
    /\ OverviewSaved \in Elems(stdout) => OverviewPath \in Elems(writes)
    /\ DetailSaved \in Elems(stdout) => DetailPath \in Elems(writes)
    /\ Elems(Summary) \cap Elems(stdout) # {} => Paths \subseteq Elems(writes)
    /\ Done => stdout = <<OverviewSaved, DetailSaved>> \o Summary

C6_Witness == Done /\ Len(stdout) = 5

\* The primitives drawn so far in the axes at a place of a figure.
Drawn(f, place) ==
    IF f <= Len(figs) /\ place \in DOMAIN figs[f].axes
    THEN figs[f].axes[place] ELSE <<>>

HasAxes(f, place) == f <= Len(figs) /\ place \in DOMAIN figs[f].axes

ConceptPanel == <<2, 3, 1>>

TilePanel == <<2, 3, 3>>

ZonePanel == <<2, 3, 4>>

LevelsPanel == <<2, 3, 5>>

DetailAxes == <<1, 1, 1>>

\* The positions, in a list of primitives, of the rectangles of a kind of edge.
RectsAt(prims, edge) ==
    {n \in 1 .. Len(prims) : prims[n].kind = "rect" /\ prims[n].edge = edge}

Inside(r, o) ==
    /\ o.x <= r.x /\ r.x + r.w <= o.x + o.w
    /\ o.y <= r.y /\ r.y + r.h <= o.y + o.h

\* Two rectangles whose interiors share no point.
Apart(r, q) ==
    \/ r.x + r.w <= q.x \/ q.x + q.w <= r.x
    \/ r.y + r.h <= q.y \/ q.y + q.h <= r.y

RECURSIVE AreaSum(_, _)
AreaSum(prims, S) ==
    IF S = {} THEN 0
    ELSE LET n == CHOOSE m \in S : TRUE
         IN  prims[n].w * prims[n].h + AreaSum(prims, S \ {n})

\* The inner cells (green-edged) of a list of primitives tile its outer
\* rectangle (blue-edged) exactly.
TilesOuter(prims) ==
    LET cells  == RectsAt(prims, "darkgreen")
        outers == RectsAt(prims, "darkblue")
    IN  /\ Cardinality(outers) = 1
        /\ \A o \in outers :
              /\ prims[o].x = 0 /\ prims[o].y = 0
              /\ prims[o].w = N(36) /\ prims[o].h = N(36)
              /\ \A c \in cells : Inside(prims[c], prims[o])
              /\ AreaSum(prims, cells) = prims[o].w * prims[o].h
        /\ \A c, d \in cells : c # d => Apart(prims[c], prims[d])
        /\ Cardinality(cells) = 36
        /\ \A i, j \in Range(6) :
              \E c \in cells :
                 /\ prims[c].x = N(6 * i) /\ prims[c].y = N(6 * j)
                 /\ prims[c].w = N(6) /\ prims[c].h = N(6)
                 /\ N(6) * 6 = N(36)

\* C3: inner edge x nesting factor = outer edge (6 x 6 = 36): in the concept
\* panel and in the detail figure, once drawn, the 36 inner cells at (6i, 6j),
\* 6 by 6 each, lie inside the 36 by 36 outer rectangle at (0, 0), have
\* pairwise disjoint interiors and cover it exactly (their areas add up to
\* the outer rectangle's).
C3_InnerCellsTileOuter ==
    /\ HasAxes(1, ConceptPanel) => TilesOuter(Drawn(1, ConceptPanel))
    /\ HasAxes(2, DetailAxes) => TilesOuter(Drawn(2, DetailAxes))

C3_Witness == HasAxes(1, ConceptPanel) /\ HasAxes(2, DetailAxes)

\* The label the detail figure gives cell (i, j): "L2", a line break, "(i,j)".
CellLabel(i, j) == "L2\n(" \o ToString(i) \o "," \o ToString(j) \o ")"

\* Every section of the overview has run.
OverviewDrawn ==
    /\ pc > 1
    /\ \A q \in 1 .. Len(Program) : Program[q].op \in {"figure", "subplot"} => q < pc

\* C4: the overview figure's panels are at distinct places among places 1..6
\* of a 2-by-3 layout, one per section run, and are exactly those six once
\* all sections have run; the detail figure holds exactly 36 inner-cell
\* rectangles, exactly one per index pair (i, j) in 0..5 x 0..5, each with
\* exactly one label, its own ("L2", line break, "(i,j)"), at its centre.
C4_SixPanelsAnd36Cells ==
    /\ Len(figs) >= 1 =>
          /\ DOMAIN figs[1].axes \subseteq {<<2, 3, k>> : k \in 1 .. 6}
          /\ Cardinality(DOMAIN figs[1].axes) = Len(order)
          /\ OverviewDrawn => DOMAIN figs[1].axes = {<<2, 3, k>> : k \in 1 .. 6}
    /\ HasAxes(2, DetailAxes) =>
          LET prims == Drawn(2, DetailAxes)
              cells == RectsAt(prims, "darkgreen")
          IN  /\ Cardinality(cells) = 36
              /\ \A i, j \in Range(6) :
                    /\ Cardinality({c \in cells : prims[c].x = N(6 * i)
                                                  /\ prims[c].y = N(6 * j)}) = 1
                    /\ Cardinality({n \in 1 .. Len(prims) :
                                       /\ prims[n].kind = "text"
                                       /\ prims[n].s = CellLabel(i, j)}) = 1
                    /\ \A n \in 1 .. Len(prims) :
                          (prims[n].kind = "text" /\ prims[n].s = CellLabel(i, j)) =>
                             /\ prims[n].x = N(6 * i) + N(3)
                             /\ prims[n].y = N(6 * j) + N(3)

C4_Witness == OverviewDrawn /\ HasAxes(2, DetailAxes) /\ Len(order) = 6

\* What the texts of a list of primitives state.
Says(prims) ==
    UNION {prims[n].says : n \in {m \in 1 .. Len(prims) : prims[m].kind = "text"}}

\* Everything stated so far in the concept panel, the resolution-levels
\* panel and the detail figure.
Stated ==
    Says(Drawn(1, ConceptPanel)) \cup Says(Drawn(1, LevelsPanel))
        \cup Says(Drawn(2, DetailAxes))

\* C7: the resolution constants shown agree wherever they are shown and are
\* arithmetically consistent: no quantity of a level is stated with two
\* values; pixels per edge x metres per pixel = edge in metres = 1000 x edge
\* in km for each level; L1 metres per pixel = nesting factor (6) x L2 metres
\* per pixel; and once the three places are drawn the values are 600 x 60 =
\* 36,000 m = 36 km (L1) and 600 x 10 = 6,000 m = 6 km (L2).
C7_ResolutionConsistent ==
    /\ \A f, g \in Stated : (f[1] = g[1] /\ f[2] = g[2]) => f[3] = g[3]
    /\ \A f, g \in Stated :
          (f[1] = g[1] /\ f[2] = "px" /\ g[2] = "m/px") =>
             \A h \in Stated :
                /\ (h[1] = f[1] /\ h[2] = "m") => f[3] * g[3] = h[3]
                /\ (h[1] = f[1] /\ h[2] = "km") => f[3] * g[3] = 1000 * h[3]
    /\ \A f, g \in Stated :
          (f[1] = "L1" /\ g[1] = "L2" /\ f[2] = "m/px" /\ g[2] = "m/px") =>
             /\ f[3] = 6 * g[3]
             /\ \A h \in Stated : (h[1] = "nest" /\ h[2] = "per edge") => f[3] = h[3] * g[3]
    /\ (HasAxes(1, ConceptPanel) /\ HasAxes(1, LevelsPanel) /\ HasAxes(2, DetailAxes)) =>
          /\ { <<"L1", "px", 600>>, <<"L1", "m/px", 60>>, <<"L1", "m", 36000>>,
               <<"L1", "km", 36>>, <<"L2", "px", 600>>, <<"L2", "m/px", 10>>,
               <<"L2", "m", 6000>>, <<"L2", "km", 6>> } \subseteq Stated
          /\ 600 * 60 = 36000 /\ 600 * 10 = 6000

C7_Witness ==
    /\ HasAxes(1, ConceptPanel) /\ HasAxes(1, LevelsPanel) /\ HasAxes(2, DetailAxes)
    /\ <<"L2", "m", 6000>> \in Stated

\* The names bound after the script's first k sections, run top to bottom.
EnvAfter1 == Subplot1(EmptyEnv).env

EnvAfter2 == Subplot2(EnvAfter1).env

EnvAfter3 == Subplot3(EnvAfter2).env

EnvAfter4 == Subplot4(EnvAfter3).env

EnvAfter5 == Subplot5(EnvAfter4).env

EnvAfter6 == Subplot6(EnvAfter5).env

EnvBefore ==
    <<EmptyEnv, EnvAfter1, EnvAfter2, EnvAfter3, EnvAfter4, EnvAfter5, EnvAfter6>>

\* What section k draws when the script runs top to bottom.
InProgramOrder(k) == Subplot(k, EnvBefore[k]).prims

\* C8: whatever order the overview's sections run in and whichever of them
\* are left out, each panel drawn holds exactly the primitives its section
\* draws when the script runs top to bottom, and so does the detail figure;
\* the detail section adds no axes and no primitive to the first figure.
C8_PanelsIndependent ==
    /\ \A place \in DOMAIN figs[1].axes :
          \E k \in 1 .. 6 :
             /\ place = <<2, 3, k>>
             /\ \E n \in 1 .. Len(order) : order[n] = k
             /\ figs[1].axes[place] = InProgramOrder(k)
    /\ Cardinality(DOMAIN figs[1].axes) = Len(order)
    /\ Len(figs) = 2 =>
          /\ DOMAIN figs[2].axes = {DetailAxes}
          /\ figs[2].axes[DetailAxes] = Detail(EnvAfter6).prims

C8_Witness == order = <<6, 5, 4, 3, 2, 1>> /\ Len(figs) = 2

\* The zone rectangles of the zone-coverage panel that hold a longitude.
ZonesHolding(prims, lon) ==
    {n \in 1 .. Len(prims) :
        /\ prims[n].kind = "rect"
        /\ prims[n].x <= lon /\ lon <= prims[n].x + prims[n].w}

\* The zone rectangles that carry a label text: the label is drawn within
\* the rectangle's longitudes.
ZonesLabelled(prims, label) ==
    {n \in 1 .. Len(prims) :
        /\ prims[n].kind = "rect"
        /\ \E t \in 1 .. Len(prims) :
              /\ prims[t].kind = "text" /\ prims[t].s = label /\ prims[t].y = -N(71)
              /\ prims[n].x < prims[t].x /\ prims[t].x < prims[n].x + prims[n].w}

\* C9: each sample marker falls inside exactly one zone rectangle, and the
\* point the tile-identification panel places in zone 43S (73.5E) falls
\* inside the rectangle the zone-coverage panel labels '43S'.
C9_ZoneLabelsAgree ==
    (HasAxes(1, TilePanel) /\ HasAxes(1, ZonePanel)) =>
       LET zp == Drawn(1, ZonePanel)
           tp == Says(Drawn(1, TilePanel))
       IN  /\ \A m \in 1 .. Len(zp) :
                 zp[m].kind = "marker" => Cardinality(ZonesHolding(zp, zp[m].x)) = 1
           /\ \A z, l \in tp :
                 (z[2] = "zone" /\ l[2] = "lon") =>
                    /\ ZonesLabelled(zp, ToString(z[3]) \o "S") # {}
                    /\ ZonesHolding(zp, l[3]) \subseteq
                          ZonesLabelled(zp, ToString(z[3]) \o "S")

\* The part of C9 that holds of the script: each marker is in exactly one
\* zone rectangle.
C9_MarkersInOneZone ==
    HasAxes(1, ZonePanel) =>
       LET zp == Drawn(1, ZonePanel)
       IN  \A m \in 1 .. Len(zp) :
              zp[m].kind = "marker" => Cardinality(ZonesHolding(zp, zp[m].x)) = 1

\* C10: the zone rectangles drawn are pairwise non-overlapping, of positive
\* width, within the panel's longitude limits [40, 165], each with its zone
\* label, and together cover every longitude from the boundary line at 44E
\* to the one at 160E.
C10_ZonesCoverAAT ==
    HasAxes(1, ZonePanel) =>
       LET zp    == Drawn(1, ZonePanel)
           rects == {n \in 1 .. Len(zp) : zp[n].kind = "rect"}
           lines == {zp[n].at : n \in {m \in 1 .. Len(zp) : zp[m].kind = "vline"}}
       IN  /\ \A a, b \in rects : a # b => Apart(zp[a], zp[b])
           /\ \A a \in rects :
                 /\ zp[a].w > 0
                 /\ N(40) <= zp[a].x /\ zp[a].x + zp[a].w <= N(165)
                 /\ \E z \in zones : a \in ZonesLabelled(zp, ToString(z) \o "S")
           /\ \A lon \in 44 .. 159 :
                 (\A v \in lines : N(lon) + 1 <= v) \/ (\A v \in lines : v <= N(lon))
                 \/ \E a \in rects : zp[a].x <= N(lon) /\ N(lon + 1) <= zp[a].x + zp[a].w

====
